---------------------------- MODULE Spec2Model ----------------------------
(***************************************************************************)
(* Model of awslabs.dynamodb_mcp_server.common: the endpoint classifier,   *)
(* the command classifier, the delete-table policy validator and the       *)
(* handle_exceptions boundary wrapper, together with the command-execution *)
(* path (execute_dynamodb_command -> call_aws) that the wrapper decorates, *)
(* and of awslabs.dynamodb_mcp_server.dynamodb_local_setup: the bootstrap  *)
(* that finds, restarts or starts the DynamoDB Local container.            *)
(*                                                                         *)
(* Python text is modelled by TLA+ strings: Len, SubSeq and \o act on them *)
(* character by character, so lower-casing and substring search are        *)
(* computed, not assumed.  Optional[str] is modelled by a sequence of      *)
(* length 0 (None) or 1 (the string).                                      *)
(***************************************************************************)
EXTENDS Integers, Sequences, FiniteSets, TLC

(***************************************************************************)
(* Bounds of the input space.                                              *)
(***************************************************************************)
\* Largest run of blanks put around the operation word of a command.
MaxSpacing == 1
\* How many of the AWS regions of the test-suite are used to build endpoints.
NumRegions == 1

(***************************************************************************)
(* Python values.                                                          *)
(***************************************************************************)
None == <<>>
Some(x) == <<x>>

\* Python truthiness of an Optional[str]: None and '' are falsy.
Truthy(opt) == opt # None /\ opt[1] # ""

UpperLetters == "ABCDEFGHIJKLMNOPQRSTUVWXYZ"
LowerLetters == "abcdefghijklmnopqrstuvwxyz"

CharAt(s, i) == SubSeq(s, i, i)

\* The lower-case letter of each upper-case letter.
LowerOf ==
    [u \in {CharAt(UpperLetters, i) : i \in 1..Len(UpperLetters)} |->
        CharAt(LowerLetters, CHOOSE i \in 1..Len(UpperLetters) : CharAt(UpperLetters, i) = u)]

\* str.lower() on one character.
str_lower_char(c) == IF c \in DOMAIN LowerOf THEN LowerOf[c] ELSE c

\* str.lower(): every character lower-cased, order and the rest kept.
RECURSIVE str_lower(_)
str_lower(s) ==
    IF Len(s) = 0 THEN ""
    ELSE str_lower_char(CharAt(s, 1)) \o str_lower(SubSeq(s, 2, Len(s)))

\* Python's `sub in s` on strings (case-sensitive substring search).
str_contains(s, sub) ==
    \E i \in 1..(Len(s) - Len(sub) + 1) : SubSeq(s, i, i + Len(sub) - 1) = sub

(***************************************************************************)
(* common.py: the classifiers and the validator.                           *)
(***************************************************************************)
local_indicators == {"localhost", "127.0.0.1", "0.0.0.0"}

\* Plausible slip: the lower-casing of the endpoint is forgotten.
is_dynamodb_local_no_lower(endpoint_url) ==
    IF ~Truthy(endpoint_url) THEN FALSE
    ELSE \E indicator \in local_indicators : str_contains(endpoint_url[1], indicator)

\* Plausible slip: the None/empty default is inverted.
is_dynamodb_local_default_local(endpoint_url) ==
    IF ~Truthy(endpoint_url) THEN TRUE
    ELSE LET endpoint_lower == str_lower(endpoint_url[1])
         IN  \E indicator \in local_indicators : str_contains(endpoint_lower, indicator)

is_dynamodb_local(endpoint_url) ==
    IF ~Truthy(endpoint_url) THEN FALSE
    ELSE LET endpoint_lower == str_lower(endpoint_url[1])
         IN  \E indicator \in local_indicators : str_contains(endpoint_lower, indicator)

\* Plausible slip: the lower-casing of the command is forgotten.
is_delete_table_operation_no_lower(command) ==
    str_contains(command, "delete-table")

is_delete_table_operation(command) ==
    LET command_lower == str_lower(command)
    IN  str_contains(command_lower, "delete-table")

\* The f-string of the denial message up to the substituted endpoint display.
error_message_head ==
    "Delete-table operation is not allowed on AWS DynamoDB.\n"
    \o "Table deletion can only be executed against DynamoDB Local.\n"
    \o "\n"
    \o "To use DynamoDB Local, provide an endpoint-url parameter:\n"
    \o "  --endpoint-url http://localhost:8000\n"
    \o "\n"
    \o "Current endpoint: "

\* Plausible slip: a missing endpoint is waved through instead of denied.
validate_allows_missing_endpoint(command, endpoint_url) ==
    IF ~is_delete_table_operation(command) THEN <<TRUE, None>>
    ELSE IF ~Truthy(endpoint_url) \/ is_dynamodb_local(endpoint_url) THEN <<TRUE, None>>
    ELSE <<FALSE, Some(error_message_head \o endpoint_url[1])>>

\* Plausible slip: the local-endpoint leaf is forgotten, every deletion is denied.
validate_denies_every_delete(command, endpoint_url) ==
    IF ~is_delete_table_operation(command) THEN <<TRUE, None>>
    ELSE <<FALSE, Some(error_message_head \o
                       (IF Truthy(endpoint_url) THEN endpoint_url[1]
                        ELSE "AWS DynamoDB (default)"))>>

\* Plausible slip: the allow leaves return an empty message instead of None.
validate_empty_message_on_allow(command, endpoint_url) ==
    IF ~is_delete_table_operation(command) THEN <<TRUE, Some("")>>
    ELSE IF is_dynamodb_local(endpoint_url) THEN <<TRUE, Some("")>>
    ELSE <<FALSE, Some(error_message_head \o
                       (IF Truthy(endpoint_url) THEN endpoint_url[1]
                        ELSE "AWS DynamoDB (default)"))>>

\* Plausible slip: the display tests `is not None` instead of truthiness.
validate_display_is_not_none(command, endpoint_url) ==
    IF ~is_delete_table_operation(command) THEN <<TRUE, None>>
    ELSE IF is_dynamodb_local(endpoint_url) THEN <<TRUE, None>>
    ELSE <<FALSE, Some(error_message_head \o
                       (IF endpoint_url # None THEN endpoint_url[1]
                        ELSE "AWS DynamoDB (default)"))>>

validate_delete_table_operation(command, endpoint_url) ==
    IF ~is_delete_table_operation(command) THEN <<TRUE, None>>
    ELSE IF is_dynamodb_local(endpoint_url) THEN <<TRUE, None>>
    ELSE LET endpoint_display ==
                 IF Truthy(endpoint_url) THEN endpoint_url[1]
                 ELSE "AWS DynamoDB (default)"
             error_message == error_message_head \o endpoint_display
         IN  <<FALSE, Some(error_message)>>

(***************************************************************************)
(* How a call ends: it returns a value or raises an exception.  A dict     *)
(* with one key is the record of its key and value.                        *)
(***************************************************************************)
Pending == [kind |-> "pending"]
Returned(v) == [kind |-> "return", value |-> v]
Raised(t, m) == [kind |-> "raise", type |-> t, msg |-> m]
Dict(k, v) == [key |-> k, val |-> v]

\* Classes derived from Exception, and the BaseException classes that are not.
ExceptionClasses == {"ValueError", "RuntimeError"}
BaseOnlyClasses == {"KeyboardInterrupt"}

\* isinstance(e, Exception): what `except Exception` catches.
IsException(outcome) == outcome.type \in ExceptionClasses

\* str(e) of an exception constructed with one text argument.
str_exc(outcome) == outcome.msg

(***************************************************************************)
(* common.py: handle_exceptions.  wrapper(o) is what the decorated call    *)
(* does with the outcome o of its one await of the wrapped function.       *)
(***************************************************************************)
\* Plausible slip: the result is put in an envelope of its own.
wrapper_wraps_result(outcome) ==
    IF outcome.kind = "return" THEN Returned(Dict("result", outcome.value.val))
    ELSE IF IsException(outcome) THEN Returned(Dict("error", str_exc(outcome)))
    ELSE outcome

\* Plausible slip: the message is prefixed by the wrapper.
wrapper_prefixes_error(outcome) ==
    IF outcome.kind = "return" THEN outcome
    ELSE IF IsException(outcome) THEN Returned(Dict("error", "Error: " \o str_exc(outcome)))
    ELSE outcome

wrapper(outcome) ==
    IF outcome.kind = "return" THEN outcome
    ELSE IF IsException(outcome) THEN Returned(Dict("error", str_exc(outcome)))
    ELSE outcome

(***************************************************************************)
(* server.py (not among the sources): execute_dynamodb_command and its     *)
(* collaborator call_aws, as the specification and the integration tests   *)
(* of tests/test_common.py describe them.                                  *)
(***************************************************************************)
\* The command handed to call_aws: the endpoint is appended when one is given.
aws_command(cmd, endpoint) ==
    IF Truthy(endpoint) THEN cmd \o " --endpoint-url " \o endpoint[1] ELSE cmd

\* The ways call_aws can end: a result, a failure, an interrupt.
AwsOutcomes ==
    { Returned(Dict("Items", "[]")),
      Raised("RuntimeError", "An error occurred (ResourceNotFoundException)"),
      Raised("KeyboardInterrupt", "") }

(***************************************************************************)
(* Inputs: commands and endpoints built from parts, as the property tests  *)
(* of tests/test_common.py build them.                                     *)
(***************************************************************************)
RECURSIVE Blanks(_)
Blanks(n) == IF n = 0 THEN "" ELSE " " \o Blanks(n - 1)

CommandPrefixes == {"aws dynamodb ", "AWS DYNAMODB "}
Operations == {"delete-table", "DELETE-TABLE", "DeLeTe-tAbLe", "delete-item", "query"}
Spacings == {Blanks(n) : n \in 0..MaxSpacing}
\* The last one names a table whose name has the operation word in it.
CommandSuffixes == {"", " --table-name MyTable", " --table-name delete-table-log"}

Commands ==
    {p \o sp \o op \o sp \o sf :
        p \in CommandPrefixes, sp \in Spacings, op \in Operations, sf \in CommandSuffixes}

Regions == <<"us-east-1", "us-west-2", "eu-west-1", "ap-southeast-1", "ca-central-1">>
UsedRegions == {Regions[i] : i \in 1..(IF NumRegions < Len(Regions) THEN NumRegions ELSE Len(Regions))}
ServicePatterns == {"dynamodb", "dynamodb-fips"}
AwsHosts == {s \o "." \o r \o ".amazonaws.com" : s \in ServicePatterns, r \in UsedRegions}
LocalHosts == {"localhost", "LoCaLhOsT", "127.0.0.1", "0.0.0.0"}
Hosts == LocalHosts \cup AwsHosts
Protocols == {"", "http://", "https://"}
Ports == {"", ":8000"}
Paths == {"", "/localhost", "/?next=127.0.0.1"}

EndpointParts == [protocol : Protocols, host : Hosts, port : Ports, path : Paths]
EndpointOf(parts) == parts.protocol \o parts.host \o parts.port \o parts.path

(***************************************************************************)
(* State.                                                                  *)
(***************************************************************************)
VARIABLES
    api,            \* the entry point this run calls
    command,        \* the command argument
    endpoint_url,   \* the endpoint argument: None or Some(text)
    endpoint_host,  \* the host part the endpoint was built from ("" when it has none)
    pc,             \* position of the run
    local_ret,      \* what is_dynamodb_local returned: None or Some(bool)
    delete_ret,     \* what is_delete_table_operation returned: None or Some(bool)
    decision,       \* what validate_delete_table_operation returned: None or <<allowed, message>>
    func_calls,     \* how often the wrapper invoked the wrapped operation
    aws_calls,      \* the commands call_aws was invoked with, in order
    aws_outcome,    \* how call_aws ended
    inner,          \* how the wrapped operation ended
    ret,            \* how the call of the entry point ended
    \* dynamodb_local_setup.py: the machine the bootstrap runs on
    docker_installed,   \* shutil.which("docker") finds an executable
    container,          \* the container of our name: "absent", "stopped" or "running"
    ports_listing,      \* what docker prints as the ports of the container when it runs
    \* dynamodb_local_setup.py: the run
    log,                \* what the run did so far, in order
    exists_out,         \* stdout of the existence check: None or Some(text)
    running_out,        \* stdout of the running check: None or Some(text)
    ports_out,          \* stdout of the port-mapping query: None or Some(text)
    existing_endpoint,  \* what get_running_container_endpoint returned
    start_port,         \* the argument of find_available_port
    port,               \* the port being probed, then the port of the new container
    probed,             \* the ports find_available_port probed, each with what it found
    attempt             \* the index i of the readiness loop

setup_vars == <<docker_installed, container, ports_listing, log, exists_out, running_out,
                ports_out, existing_endpoint, start_port, port, probed, attempt>>

vars == <<api, command, endpoint_url, endpoint_host, pc, local_ret, delete_ret, decision,
          func_calls, aws_calls, aws_outcome, inner, ret, setup_vars>>

inputs == <<api, command, endpoint_url, endpoint_host>>

Init ==
    /\ pc = "call"
    /\ local_ret = None
    /\ delete_ret = None
    /\ decision = None
    /\ func_calls = 0
    /\ aws_calls = <<>>
    /\ aws_outcome = Pending
    /\ inner = Pending
    /\ ret = Pending
    /\ docker_installed = FALSE
    /\ container = "absent"
    /\ ports_listing = ""
    /\ log = <<>>
    /\ exists_out = None
    /\ running_out = None
    /\ ports_out = None
    /\ existing_endpoint = None
    /\ start_port = 0
    /\ port = 0
    /\ probed = <<>>
    /\ attempt = 0
    /\ api \in {"is_dynamodb_local", "is_delete_table_operation",
                "validate_delete_table_operation", "execute_dynamodb_command"}
    /\ \/ /\ endpoint_url \in (IF api = "is_delete_table_operation" THEN {None}
                               ELSE {None, Some(""), Some("   ")})
          /\ endpoint_host = ""
       \/ /\ api # "is_delete_table_operation"
          /\ \E parts \in EndpointParts :
                /\ endpoint_url = Some(EndpointOf(parts))
                /\ endpoint_host = parts.host
    /\ IF api = "is_dynamodb_local" THEN command = "" ELSE command \in Commands

(***************************************************************************)
(* Direct calls of the three pure functions.                               *)
(***************************************************************************)
CallIsDynamodbLocal ==
    /\ pc = "call"
    /\ api = "is_dynamodb_local"
    /\ local_ret' = Some(is_dynamodb_local(endpoint_url))
    /\ pc' = "done"
    /\ UNCHANGED <<setup_vars, inputs, delete_ret, decision, func_calls, aws_calls, aws_outcome, inner, ret>>

CallIsDeleteTableOperation ==
    /\ pc = "call"
    /\ api = "is_delete_table_operation"
    /\ delete_ret' = Some(is_delete_table_operation(command))
    /\ pc' = "done"
    /\ UNCHANGED <<setup_vars, inputs, local_ret, decision, func_calls, aws_calls, aws_outcome, inner, ret>>

CallValidate ==
    /\ pc = "call"
    /\ api = "validate_delete_table_operation"
    /\ decision' = validate_delete_table_operation(command, endpoint_url)
    /\ ret' = Returned(decision')
    /\ pc' = "done"
    /\ UNCHANGED <<setup_vars, inputs, local_ret, delete_ret, func_calls, aws_calls, aws_outcome, inner>>

\* Plausible slip: a module-level flag remembers a denial and lets the retry through.
CallValidateAgain_lets_retry_through ==
    /\ pc = "done"
    /\ api = "validate_delete_table_operation"
    /\ decision' = IF ~decision[1] THEN <<TRUE, None>>
                   ELSE validate_delete_table_operation(command, endpoint_url)
    /\ pc' = "asked_twice"
    /\ UNCHANGED <<setup_vars, inputs, local_ret, delete_ret, func_calls, aws_calls, aws_outcome, inner, ret>>

\* The same caller asks again with the same arguments; ret keeps the first answer.
CallValidateAgain ==
    /\ pc = "done"
    /\ api = "validate_delete_table_operation"
    /\ decision' = validate_delete_table_operation(command, endpoint_url)
    /\ pc' = "asked_twice"
    /\ UNCHANGED <<setup_vars, inputs, local_ret, delete_ret, func_calls, aws_calls, aws_outcome, inner, ret>>

(***************************************************************************)
(* The boundary call: wrapper -> execute_dynamodb_command -> call_aws.     *)
(***************************************************************************)
\* wrapper enters its try block and awaits the wrapped operation.
WrapperAwaitFunc ==
    /\ pc = "call"
    /\ api = "execute_dynamodb_command"
    /\ func_calls' = func_calls + 1
    /\ pc' = "validate"
    /\ UNCHANGED <<setup_vars, inputs, local_ret, delete_ret, decision, aws_calls, aws_outcome, inner, ret>>

\* execute_dynamodb_command asks the validator.
ExecValidate ==
    /\ pc = "validate"
    /\ decision' = validate_delete_table_operation(command, endpoint_url)
    /\ pc' = IF decision'[1] THEN "allowed" ELSE "denied"
    /\ UNCHANGED <<setup_vars, inputs, local_ret, delete_ret, func_calls, aws_calls, aws_outcome, inner, ret>>

\* Denied: the denial message is raised, call_aws is not reached.
ExecRaiseDenied ==
    /\ pc = "denied"
    /\ inner' = Raised("ValueError", decision[2][1])
    /\ pc' = "returning"
    /\ UNCHANGED <<setup_vars, inputs, local_ret, delete_ret, decision, func_calls, aws_calls, aws_outcome, ret>>

\* Allowed: call_aws is invoked and its outcome is the operation's outcome.
ExecCallAws ==
    /\ pc = "allowed"
    /\ \E outcome \in AwsOutcomes :
          /\ aws_outcome' = outcome
          /\ inner' = outcome
    /\ aws_calls' = Append(aws_calls, aws_command(command, endpoint_url))
    /\ pc' = "returning"
    /\ UNCHANGED <<setup_vars, inputs, local_ret, delete_ret, decision, func_calls, ret>>

\* wrapper returns the result, converts an Exception, or lets the rest through.
WrapperFinish ==
    /\ pc = "returning"
    /\ ret' = wrapper(inner)
    /\ pc' = "done"
    /\ UNCHANGED <<setup_vars, inputs, local_ret, delete_ret, decision, func_calls, aws_calls, aws_outcome, inner>>

Next ==
    \/ CallIsDynamodbLocal
    \/ CallIsDeleteTableOperation
    \/ CallValidate
    \/ CallValidateAgain
    \/ WrapperAwaitFunc
    \/ ExecValidate
    \/ ExecRaiseDenied
    \/ ExecCallAws
    \/ WrapperFinish

Spec == Init /\ [][Next]_vars

TypeOK ==
    /\ pc \in {"call", "validate", "allowed", "denied", "returning", "done", "asked_twice"}
    /\ local_ret \in {None, Some(TRUE), Some(FALSE)}
    /\ delete_ret \in {None, Some(TRUE), Some(FALSE)}
    /\ func_calls \in 0..1
    /\ Len(aws_calls) \in 0..1

(***************************************************************************)
(* dynamodb_local_setup.py: constants, text operations and the commands    *)
(* the bootstrap hands to Docker.                                          *)
(***************************************************************************)
DEFAULT_PORT == 8000
CONTAINER_NAME == "dynamodb-local-mcp-server"
DOCKER_IMAGE == "amazon/dynamodb-local"

\* `while port < 65535`: the first port the scan does not probe.
PORT_SCAN_END == 65535
\* The ports a socket accepts are 0..65535; connect_ex raises OverflowError outside.
MAX_SOCKET_PORT == 65535
\* `for i in range(10)` and `if i == 9`.
READY_ATTEMPTS == 10
\* Plausible slip: the last turn is taken to be i == 10, which range(10) never yields.
LAST_ATTEMPT_is_range_end == READY_ATTEMPTS
LAST_ATTEMPT == 9

\* Most ports one scan finds busy or unprobeable before a free one.
MaxBusy == 2

Digits == "0123456789"

\* str(n), as the f-strings format a port.
RECURSIVE str_int(_)
str_int(n) ==
    IF n < 0 THEN "-" \o str_int(0 - n)
    ELSE IF n < 10 THEN CharAt(Digits, n + 1)
    ELSE str_int(n \div 10) \o CharAt(Digits, (n % 10) + 1)

Whitespace == {" ", "\n", "\t"}

RECURSIVE str_lstrip(_)
str_lstrip(s) ==
    IF Len(s) > 0 /\ CharAt(s, 1) \in Whitespace THEN str_lstrip(SubSeq(s, 2, Len(s)))
    ELSE s

RECURSIVE str_rstrip(_)
str_rstrip(s) ==
    IF Len(s) > 0 /\ CharAt(s, Len(s)) \in Whitespace THEN str_rstrip(SubSeq(s, 1, Len(s) - 1))
    ELSE s

\* s.strip()
str_strip(s) == str_rstrip(str_lstrip(s))

\* s.find(sub) counted from 1, and 0 when sub does not occur.
str_find(s, sub) ==
    LET hits == {i \in 1..(Len(s) - Len(sub) + 1) : SubSeq(s, i, i + Len(sub) - 1) = sub}
    IN  IF hits = {} THEN 0 ELSE CHOOSE i \in hits : \A j \in hits : i <= j

\* s.split(sep)[0]
split_first(s, sep) ==
    IF str_find(s, sep) = 0 THEN s ELSE SubSeq(s, 1, str_find(s, sep) - 1)

\* s.split(sep)[-1]
RECURSIVE split_last(_, _)
split_last(s, sep) ==
    IF str_find(s, sep) = 0 THEN s
    ELSE split_last(SubSeq(s, str_find(s, sep) + Len(sep), Len(s)), sep)

\* What shutil.which("docker") returns where Docker is installed.
DockerPath == "/usr/local/bin/docker"

exists_cmd == DockerPath \o " ps -a -q -f name=" \o CONTAINER_NAME
running_cmd == DockerPath \o " ps -q -f name=" \o CONTAINER_NAME
restart_cmd == DockerPath \o " start " \o CONTAINER_NAME
ports_cmd == DockerPath \o " ps --format {{.Ports}} -f name=" \o CONTAINER_NAME
version_cmd == DockerPath \o " --version"

run_cmd(p) ==
    DockerPath \o " run -d --name " \o CONTAINER_NAME \o " -p " \o str_int(p) \o ":"
               \o str_int(DEFAULT_PORT) \o " " \o DOCKER_IMAGE

\* Plausible slip: the endpoint names the container instead of the local host.
new_endpoint_names_container(p) == "http://" \o CONTAINER_NAME \o ":" \o str_int(p)

\* start_docker_container: endpoint = f"http://localhost:{port}"
new_endpoint(p) == "http://localhost:" \o str_int(p)

\* Plausible slip: the container side of the mapping is taken as the port.
container_endpoint_takes_container_port(ports_output) ==
    IF ports_output # "" /\ str_find(ports_output, "->") # 0
    THEN Some("http://localhost:" \o split_first(split_last(ports_output, "->"), "/"))
    ELSE None

\* get_running_container_endpoint: the endpoint read from the stripped ports text.
container_endpoint(ports_output) ==
    IF ports_output # "" /\ str_find(ports_output, "->") # 0
    THEN LET host_port == split_last(split_first(ports_output, "->"), ":")
         IN  Some("http://localhost:" \o host_port)
    ELSE None

\* What `docker ps -q` prints for a container that matches the filter.
ContainerId == "3f2a9c1d5e7b\n"

\* What `docker ps --format {{.Ports}}` prints for a running container of our name
\* that was there before the run: published on another port, published for IPv4
\* and IPv6, published for IPv6 alone, exposed but not published, nothing exposed.
PortsListings ==
    {"0.0.0.0:8001->8000/tcp\n",
     "0.0.0.0:8000->8000/tcp, [::]:8000->8000/tcp\n",
     ":::8002->8000/tcp\n",
     "8000/tcp\n",
     "\n"}

\* What docker prints for the container that `docker run -p p:8000` started.
published_listing(p) == "0.0.0.0:" \o str_int(p) \o "->" \o str_int(DEFAULT_PORT) \o "/tcp\n"

\* One entry of the log.
Event(op, arg) == [op |-> op, arg |-> arg]

\* The arguments find_available_port is called with when called on its own.
StartPorts ==
    {DEFAULT_PORT, 0 - 1, 0, PORT_SCAN_END + 1} \cup {PORT_SCAN_END - k : k \in 0..MaxBusy}

\* The arguments start_docker_container is called with when called on its own.
ContainerPorts == {DEFAULT_PORT, DEFAULT_PORT + 1}

\* The deletions a caller checks against the endpoint the bootstrap returned.
DeleteCommands == {"aws dynamodb delete-table --table-name MyTable", "AWS DYNAMODB DELETE-TABLE"}

\* How one connection attempt of the scan ends.
ProbeResults == {"free", "busy", "OSError"}

\* How one readiness request ends: an answer, or one of the failures the loop catches.
ReadyResults == {"ok", "URLError", "OSError"}

(***************************************************************************)
(* dynamodb_local_setup.py: the bootstrap.  A run calls one of             *)
(* setup_dynamodb_local, get_running_container_endpoint,                   *)
(* find_available_port and start_docker_container; every command handed to *)
(* Docker, every connection attempt and every wait is appended to log.     *)
(***************************************************************************)
\* What no step of the bootstrap changes.
setup_fixed == <<api, command, endpoint_url, endpoint_host, delete_ret, func_calls, aws_calls,
                 aws_outcome, inner, docker_installed, start_port>>

SetupInit ==
    /\ api \in {"setup_dynamodb_local", "get_running_container_endpoint",
                "find_available_port", "start_docker_container"}
    /\ pc = CASE api = "setup_dynamodb_local" -> "setup_call"
              [] api = "get_running_container_endpoint" -> "grc_which"
              [] api = "find_available_port" -> "fap_loop"
              [] api = "start_docker_container" -> "sdc_which"
    /\ IF api = "find_available_port"
       THEN /\ docker_installed = FALSE
            /\ container = "absent"
            /\ start_port \in StartPorts
       ELSE /\ docker_installed \in BOOLEAN
            /\ container \in (IF docker_installed THEN {"absent", "stopped", "running"}
                              ELSE {"absent"})
            /\ start_port = DEFAULT_PORT
    /\ ports_listing \in (IF container = "absent" THEN {""} ELSE PortsListings)
    /\ port \in (IF api = "start_docker_container" THEN ContainerPorts ELSE {start_port})
    /\ command \in (IF api = "setup_dynamodb_local" THEN DeleteCommands ELSE {""})
    /\ endpoint_url = None
    /\ endpoint_host = ""
    /\ local_ret = None
    /\ delete_ret = None
    /\ decision = None
    /\ func_calls = 0
    /\ aws_calls = <<>>
    /\ aws_outcome = Pending
    /\ inner = Pending
    /\ ret = Pending
    /\ log = <<>>
    /\ exists_out = None
    /\ running_out = None
    /\ ports_out = None
    /\ existing_endpoint = None
    /\ probed = <<>>
    /\ attempt = 0

\* setup_dynamodb_local: existing_endpoint = get_running_container_endpoint()
SetupCallGetEndpoint ==
    /\ pc = "setup_call"
    /\ log' = Append(log, Event("call", "get_running_container_endpoint()"))
    /\ pc' = "grc_which"
    /\ UNCHANGED <<setup_fixed, container, ports_listing, exists_out, running_out, ports_out,
                   existing_endpoint, port, probed, attempt, ret, decision, local_ret>>

\* get_running_container_endpoint returns value: to its caller, or to setup_dynamodb_local.
GrcReturn(value) ==
    /\ existing_endpoint' = value
    /\ IF api = "get_running_container_endpoint"
       THEN pc' = "done" /\ ret' = Returned(value)
       ELSE pc' = "setup_existing" /\ ret' = ret

\* get_running_container_endpoint: docker_path = shutil.which("docker")
GrcWhich ==
    /\ pc = "grc_which"
    /\ log' = Append(log, Event("which", "docker"))
    /\ IF docker_installed
       THEN pc' = "grc_exists" /\ UNCHANGED <<existing_endpoint, ret>>
       ELSE GrcReturn(None)
    /\ UNCHANGED <<setup_fixed, container, ports_listing, exists_out, running_out, ports_out,
                   port, probed, attempt, decision, local_ret>>

\* get_running_container_endpoint: does a container of our name exist?
GrcExists ==
    /\ pc = "grc_exists"
    /\ log' = Append(log, Event("subprocess.run", exists_cmd))
    /\ \E ok \in BOOLEAN :
          IF ok
          THEN /\ exists_out' = Some(IF container = "absent" THEN "" ELSE ContainerId)
               /\ IF str_strip(exists_out'[1]) # ""
                  THEN pc' = "grc_running" /\ UNCHANGED <<existing_endpoint, ret>>
                  ELSE GrcReturn(None)
          ELSE \* CalledProcessError or FileNotFoundError: caught, None is returned
               /\ exists_out' = exists_out
               /\ GrcReturn(None)
    /\ UNCHANGED <<setup_fixed, container, ports_listing, running_out, ports_out,
                   port, probed, attempt, decision, local_ret>>

\* get_running_container_endpoint: is it running?
GrcRunning ==
    /\ pc = "grc_running"
    /\ log' = Append(log, Event("subprocess.run", running_cmd))
    /\ \E ok \in BOOLEAN :
          IF ok
          THEN /\ running_out' = Some(IF container = "running" THEN ContainerId ELSE "")
               /\ pc' = IF str_strip(running_out'[1]) = "" THEN "grc_restart" ELSE "grc_ports"
               /\ UNCHANGED <<existing_endpoint, ret>>
          ELSE /\ running_out' = running_out
               /\ GrcReturn(None)
    /\ UNCHANGED <<setup_fixed, container, ports_listing, exists_out, ports_out,
                   port, probed, attempt, decision, local_ret>>

\* get_running_container_endpoint: the container is not running, docker start.
GrcRestart ==
    /\ pc = "grc_restart"
    /\ log' = Append(log, Event("subprocess.run", restart_cmd))
    /\ \E ok \in BOOLEAN :
          IF ok /\ container # "absent"
          THEN /\ container' = "running"
               /\ pc' = "grc_ports"
               /\ UNCHANGED <<existing_endpoint, ret>>
          ELSE /\ container' = container
               /\ GrcReturn(None)
    /\ UNCHANGED <<setup_fixed, ports_listing, exists_out, running_out, ports_out,
                   port, probed, attempt, decision, local_ret>>

\* get_running_container_endpoint: the port-mapping query and the endpoint read from it.
GrcPorts ==
    /\ pc = "grc_ports"
    /\ log' = Append(log, Event("subprocess.run", ports_cmd))
    /\ \E ok \in BOOLEAN :
          IF ok
          THEN /\ ports_out' = Some(IF container = "running" THEN ports_listing ELSE "")
               /\ GrcReturn(container_endpoint(str_strip(ports_out'[1])))
          ELSE /\ ports_out' = ports_out
               /\ GrcReturn(None)
    /\ UNCHANGED <<setup_fixed, container, ports_listing, exists_out, running_out,
                   port, probed, attempt, decision, local_ret>>

\* Plausible slip: the reuse is forgotten and a new container is always started.
SetupExisting_never_reuses ==
    /\ pc = "setup_existing"
    /\ log' = Append(log, Event("call", "is_docker_available()"))
    /\ pc' = "ida_which"
    /\ ret' = ret
    /\ UNCHANGED <<setup_fixed, container, ports_listing, exists_out, running_out, ports_out,
                   existing_endpoint, port, probed, attempt, decision, local_ret>>

\* setup_dynamodb_local: `if existing_endpoint: return existing_endpoint`, else
\* has_docker = is_docker_available().
SetupExisting ==
    /\ pc = "setup_existing"
    /\ IF Truthy(existing_endpoint)
       THEN /\ ret' = Returned(existing_endpoint[1])
            /\ pc' = "done"
            /\ log' = log
       ELSE /\ log' = Append(log, Event("call", "is_docker_available()"))
            /\ pc' = "ida_which"
            /\ ret' = ret
    /\ UNCHANGED <<setup_fixed, container, ports_listing, exists_out, running_out, ports_out,
                   existing_endpoint, port, probed, attempt, decision, local_ret>>

\* is_docker_available: shutil.which("docker")
IdaWhich ==
    /\ pc = "ida_which"
    /\ log' = Append(log, Event("which", "docker"))
    /\ pc' = IF docker_installed THEN "ida_version" ELSE "setup_no_docker"
    /\ UNCHANGED <<setup_fixed, container, ports_listing, exists_out, running_out, ports_out,
                   existing_endpoint, port, probed, attempt, ret, decision, local_ret>>

\* is_docker_available: `docker --version` within five seconds.
IdaVersion ==
    /\ pc = "ida_version"
    /\ log' = Append(log, Event("subprocess.run", version_cmd))
    /\ \E outcome \in {"ok", "CalledProcessError", "FileNotFoundError", "TimeoutExpired"} :
          pc' = IF outcome = "ok" THEN "setup_find_port" ELSE "setup_no_docker"
    /\ UNCHANGED <<setup_fixed, container, ports_listing, exists_out, running_out, ports_out,
                   existing_endpoint, port, probed, attempt, ret, decision, local_ret>>

\* Plausible slip: a missing Docker is not reported, the scan goes ahead.
SetupNoDocker_goes_ahead ==
    /\ pc = "setup_no_docker"
    /\ log' = Append(log, Event("call", "find_available_port(" \o str_int(DEFAULT_PORT) \o ")"))
    /\ pc' = "fap_loop"
    /\ UNCHANGED <<setup_fixed, container, ports_listing, exists_out, running_out, ports_out,
                   existing_endpoint, port, probed, attempt, ret, decision, local_ret>>

\* setup_dynamodb_local: `if not has_docker: raise RuntimeError(...)`
SetupNoDocker ==
    /\ pc = "setup_no_docker"
    /\ ret' = Raised("RuntimeError",
                     "Docker is not available. Please install Docker Desktop from "
                     \o "https://docker.com/products/docker-desktop ")
    /\ pc' = "done"
    /\ UNCHANGED <<setup_fixed, container, ports_listing, log, exists_out, running_out, ports_out,
                   existing_endpoint, port, probed, attempt, decision, local_ret>>

\* setup_dynamodb_local: port = find_available_port(DEFAULT_PORT)
SetupFindPort ==
    /\ pc = "setup_find_port"
    /\ log' = Append(log, Event("call", "find_available_port(" \o str_int(DEFAULT_PORT) \o ")"))
    /\ port' = DEFAULT_PORT
    /\ pc' = "fap_loop"
    /\ UNCHANGED <<setup_fixed, container, ports_listing, exists_out, running_out, ports_out,
                   existing_endpoint, probed, attempt, ret, decision, local_ret>>

\* Plausible slip: the scan gives up at the first busy port and returns the next one unprobed.
FapProbe_skips_probe ==
    /\ pc = "fap_loop"
    /\ port < PORT_SCAN_END
    /\ port \in 0..MAX_SOCKET_PORT
    /\ log' = Append(log, Event("connect_ex", "localhost:" \o str_int(port)))
    /\ \E result \in ProbeResults :
          /\ probed' = Append(probed, <<port, result>>)
          /\ port' = IF result = "free" THEN port ELSE port + 1
          /\ IF api = "find_available_port"
             THEN pc' = "done" /\ ret' = Returned(port')
             ELSE pc' = "setup_start" /\ ret' = ret
    /\ UNCHANGED <<setup_fixed, container, ports_listing, exists_out, running_out, ports_out,
                   existing_endpoint, attempt, decision, local_ret>>

\* find_available_port: one turn of `while port < 65535`, or the raise behind the loop.
FapProbe ==
    /\ pc = "fap_loop"
    /\ IF port < PORT_SCAN_END
       THEN IF port \in 0..MAX_SOCKET_PORT
            THEN /\ log' = Append(log, Event("connect_ex", "localhost:" \o str_int(port)))
                 /\ \E result \in ProbeResults :
                       /\ result # "free" => Len(probed) < MaxBusy
                       /\ probed' = Append(probed, <<port, result>>)
                       /\ IF result = "free"
                          THEN \* connect_ex(...) != 0: return port
                               /\ port' = port
                               /\ IF api = "find_available_port"
                                  THEN pc' = "done" /\ ret' = Returned(port)
                                  ELSE pc' = "setup_start" /\ ret' = ret
                          ELSE \* the port answered, or OSError was caught: port += 1
                               /\ port' = port + 1
                               /\ pc' = pc
                               /\ ret' = ret
            ELSE \* connect_ex refuses the port number; OverflowError is not an OSError
                 /\ log' = Append(log, Event("connect_ex", "localhost:" \o str_int(port)))
                 /\ probed' = Append(probed, <<port, "OverflowError">>)
                 /\ ret' = Raised("OverflowError", "connect_ex(): port must be 0-65535.")
                 /\ pc' = "done"
                 /\ port' = port
       ELSE /\ ret' = IF api = "find_available_port"
                      THEN Raised("RuntimeError", "No available ports found in range 8000-65534")
                      ELSE Raised("RuntimeError", "Cannot find available port: "
                                    \o "No available ports found in range 8000-65534")
            /\ pc' = "done"
            /\ UNCHANGED <<log, probed, port>>
    /\ UNCHANGED <<setup_fixed, container, ports_listing, exists_out, running_out, ports_out,
                   existing_endpoint, attempt, decision, local_ret>>

\* Plausible slip: the container is started on the default port, not on the port found.
SetupStartContainer_on_default_port ==
    /\ pc = "setup_start"
    /\ log' = Append(log, Event("call", "start_docker_container(" \o str_int(DEFAULT_PORT) \o ")"))
    /\ port' = DEFAULT_PORT
    /\ pc' = "sdc_which"
    /\ UNCHANGED <<setup_fixed, container, ports_listing, exists_out, running_out, ports_out,
                   existing_endpoint, probed, attempt, ret, decision, local_ret>>

\* setup_dynamodb_local: return start_docker_container(port)
SetupStartContainer ==
    /\ pc = "setup_start"
    /\ log' = Append(log, Event("call", "start_docker_container(" \o str_int(port) \o ")"))
    /\ pc' = "sdc_which"
    /\ UNCHANGED <<setup_fixed, container, ports_listing, exists_out, running_out, ports_out,
                   existing_endpoint, port, probed, attempt, ret, decision, local_ret>>

\* start_docker_container: docker_path = shutil.which("docker")
SdcWhich ==
    /\ pc = "sdc_which"
    /\ log' = Append(log, Event("which", "docker"))
    /\ IF docker_installed
       THEN pc' = "sdc_run" /\ ret' = ret
       ELSE pc' = "done" /\ ret' = Raised("RuntimeError", "Docker executable not found in PATH")
    /\ UNCHANGED <<setup_fixed, container, ports_listing, exists_out, running_out, ports_out,
                   existing_endpoint, port, probed, attempt, decision, local_ret>>

\* start_docker_container: docker run; Docker refuses a name that is taken.
SdcRun ==
    /\ pc = "sdc_run"
    /\ log' = Append(log, Event("subprocess.run", run_cmd(port)))
    /\ \E ok \in BOOLEAN :
          IF ok /\ container = "absent"
          THEN /\ container' = "running"
               /\ ports_listing' = published_listing(port)
               /\ attempt' = 0
               /\ pc' = "sdc_wait"
               /\ ret' = ret
          ELSE /\ ret' = Raised("RuntimeError", "Failed to start Docker container: "
                                   \o (IF container = "absent" THEN "docker: Error response from daemon."
                                       ELSE "docker: Error response from daemon: Conflict. "
                                            \o "The container name is already in use."))
               /\ pc' = "done"
               /\ UNCHANGED <<container, ports_listing, attempt>>
    /\ UNCHANGED <<setup_fixed, exists_out, running_out, ports_out,
                   existing_endpoint, port, probed, decision, local_ret>>

\* start_docker_container: one turn of `for i in range(10)`, or the raise behind the loop.
SdcProbe ==
    /\ pc = "sdc_wait"
    /\ IF attempt < READY_ATTEMPTS
       THEN \E result \in ReadyResults :
               IF result = "ok"
               THEN /\ log' = Append(log, Event("urlopen", new_endpoint(port)))
                    /\ ret' = Returned(new_endpoint(port))
                    /\ pc' = "done"
                    /\ attempt' = attempt
               ELSE IF attempt = LAST_ATTEMPT
               THEN /\ log' = Append(log, Event("urlopen", new_endpoint(port)))
                    /\ ret' = Raised("RuntimeError",
                                     "DynamoDB Local failed to start at " \o new_endpoint(port)
                                     \o " after 10 seconds. Check Docker logs: docker logs "
                                     \o CONTAINER_NAME \o ". Last error: " \o result)
                    /\ pc' = "done"
                    /\ attempt' = attempt
               ELSE /\ log' = log \o <<Event("urlopen", new_endpoint(port)), Event("sleep", "1")>>
                    /\ attempt' = attempt + 1
                    /\ pc' = pc
                    /\ ret' = ret
       ELSE /\ ret' = Raised("RuntimeError",
                             "Unexpected error waiting for DynamoDB Local at " \o new_endpoint(port))
            /\ pc' = "done"
            /\ UNCHANGED <<log, attempt>>
    /\ UNCHANGED <<setup_fixed, container, ports_listing, exists_out, running_out, ports_out,
                   existing_endpoint, port, probed, decision, local_ret>>

\* The caller checks a deletion against the endpoint the bootstrap returned.
SetupValidate ==
    /\ pc = "done"
    /\ api = "setup_dynamodb_local"
    /\ ret.kind = "return"
    /\ local_ret' = Some(is_dynamodb_local(Some(ret.value)))
    /\ decision' = validate_delete_table_operation(command, Some(ret.value))
    /\ pc' = "validated"
    /\ UNCHANGED <<setup_fixed, container, ports_listing, log, exists_out, running_out, ports_out,
                   existing_endpoint, port, probed, attempt, ret>>

SetupNext ==
    \/ SetupCallGetEndpoint
    \/ GrcWhich
    \/ GrcExists
    \/ GrcRunning
    \/ GrcRestart
    \/ GrcPorts
    \/ SetupExisting
    \/ IdaWhich
    \/ IdaVersion
    \/ SetupNoDocker
    \/ SetupFindPort
    \/ FapProbe
    \/ SetupStartContainer
    \/ SdcWhich
    \/ SdcRun
    \/ SdcProbe
    \/ SetupValidate

SetupSpec == SetupInit /\ [][SetupNext]_vars

SetupTypeOK ==
    /\ container \in {"absent", "stopped", "running"}
    /\ attempt \in 0..LAST_ATTEMPT
    /\ Len(probed) <= MaxBusy + 1
    /\ existing_endpoint # None => Len(existing_endpoint) = 1

(***************************************************************************)
(* Vocabulary of the properties, stated without the functions under test.  *)
(***************************************************************************)
\* The pairs of an upper-case letter and its lower-case letter, both ways round.
CasePairs ==
    UNION {{<<CharAt(UpperLetters, i), CharAt(LowerLetters, i)>>,
            <<CharAt(LowerLetters, i), CharAt(UpperLetters, i)>>} : i \in 1..Len(UpperLetters)}

\* Two characters that are equal up to letter case.
SameLetter(a, b) == a = b \/ <<a, b>> \in CasePairs

\* The literal occurs in the text at some position, in some letter-casing.
OccursIgnoringCase(text, literal) ==
    \E i \in 1..(Len(text) - Len(literal) + 1) :
        \A k \in 1..Len(literal) :
            SameLetter(CharAt(text, i + k - 1), CharAt(literal, k))

IndicatorLiterals == {"localhost", "127.0.0.1", "0.0.0.0"}

\* The command mentions delete-table in some letter-casing.
IsDeleteCommand(cmd) == OccursIgnoringCase(cmd, "delete-table")

\* The endpoint is a text with a local indicator somewhere in it.
HasLocalIndicator(endpoint) ==
    /\ endpoint # None
    /\ \E lit \in IndicatorLiterals : OccursIgnoringCase(endpoint[1], lit)

\* The host of the endpoint is one of the three local hosts.
HostIsLocal(host) ==
    \E lit \in IndicatorLiterals : Len(host) = Len(lit) /\ OccursIgnoringCase(host, lit)

\* <protocol>dynamodb(-fips)?.<region>.amazonaws.com
HasAwsShape(endpoint) ==
    /\ endpoint # None
    /\ \E p \in Protocols, s \in {"dynamodb", "dynamodb-fips"}, r \in UsedRegions :
          endpoint[1] = p \o s \o "." \o r \o ".amazonaws.com"

ExecDone == pc = "done" /\ api = "execute_dynamodb_command"

(***************************************************************************)
(* C1.  A delete-table command is denied whenever the host of the endpoint *)
(* is not localhost, 127.0.0.1 or 0.0.0.0, also when the path or query of  *)
(* a managed-service URL contains a local-indicator literal.               *)
(***************************************************************************)
C1_DeleteDeniedOffLocalHost ==
    (decision # None /\ IsDeleteCommand(command) /\ ~HostIsLocal(endpoint_host))
        => decision[1] = FALSE

(***************************************************************************)
(* C2.  Deny invariant: a delete-table command (any letter case) with an   *)
(* endpoint that is None, empty or free of local indicators is answered    *)
(* (False, message), the message present and, ignoring case, containing    *)
(* 'delete-table', 'dynamodb local' with one of 'require' / 'only' /       *)
(* 'not allowed', 'endpoint-url', and 'localhost' or '127.0.0.1'.          *)
(***************************************************************************)
C2_DenyInvariant ==
    (decision # None /\ IsDeleteCommand(command) /\ ~HasLocalIndicator(endpoint_url))
        => /\ decision[1] = FALSE
           /\ decision[2] # None
           /\ LET message == decision[2][1]
              IN  /\ OccursIgnoringCase(message, "delete-table")
                  /\ OccursIgnoringCase(message, "dynamodb local")
                  /\ \/ OccursIgnoringCase(message, "require")
                     \/ OccursIgnoringCase(message, "only")
                     \/ OccursIgnoringCase(message, "not allowed")
                  /\ OccursIgnoringCase(message, "endpoint-url")
                  /\ \/ OccursIgnoringCase(message, "localhost")
                     \/ OccursIgnoringCase(message, "127.0.0.1")

C2_Witness ==
    /\ api = "validate_delete_table_operation"
    /\ decision # None
    /\ str_contains(command, "DELETE-TABLE")
    /\ endpoint_url = Some("https://dynamodb.us-east-1.amazonaws.com")
    /\ decision[1] = FALSE

(***************************************************************************)
(* C3.  Allow invariant: a delete-table command with a local endpoint, and *)
(* a command that is not delete-table with any endpoint, is answered       *)
(* exactly (True, None).                                                   *)
(***************************************************************************)
C3_AllowInvariant ==
    (/\ decision # None
     /\ \/ IsDeleteCommand(command) /\ HasLocalIndicator(endpoint_url)
        \/ ~IsDeleteCommand(command))
        => decision = <<TRUE, None>>

C3_Witness ==
    /\ api = "validate_delete_table_operation"
    /\ decision = <<TRUE, None>>
    /\ IsDeleteCommand(command)
    /\ endpoint_url = Some("http://LoCaLhOsT:8000")

(***************************************************************************)
(* C4.  In every decision the message is present exactly when allowed is   *)
(* false.                                                                  *)
(***************************************************************************)
C4_MessageIffDenied ==
    decision # None => ((decision[2] # None) <=> (decision[1] = FALSE))

C4_Witness ==
    /\ api = "validate_delete_table_operation"
    /\ decision # None
    /\ decision[1] = FALSE
    /\ decision[2] # None
    /\ endpoint_url = None

(***************************************************************************)
(* C5.  call_aws is invoked only after the validator allowed the pair:     *)
(* never when it denied, exactly once when it allowed, and the result it   *)
(* returns is what the boundary call returns.                              *)
(***************************************************************************)
C5_CollaboratorOnlyAfterAllow ==
    /\ aws_calls # <<>> => (decision # None /\ decision[1] = TRUE)
    /\ ExecDone =>
          IF decision[1]
          THEN /\ Len(aws_calls) = 1
               /\ aws_outcome.kind = "return" => ret = aws_outcome
          ELSE /\ aws_calls = <<>>
               /\ aws_outcome = Pending

C5_Witness ==
    /\ ExecDone
    /\ IsDeleteCommand(command)
    /\ endpoint_url = Some("http://localhost:8000")
    /\ Len(aws_calls) = 1
    /\ ret = Returned(Dict("Items", "[]"))

C7_DenialMessageTemplate ==
    (decision # None /\ decision[1] = FALSE)
        => decision[2] = Some(
               "Delete-table operation is not allowed on AWS DynamoDB.\n"
               \o "Table deletion can only be executed against DynamoDB Local.\n\n"
               \o "To use DynamoDB Local, provide an endpoint-url parameter:\n"
               \o "  --endpoint-url http://localhost:8000\n\n"
               \o "Current endpoint: "
               \o (IF endpoint_url = None \/ endpoint_url = Some("")
                   THEN "AWS DynamoDB (default)"
                   ELSE endpoint_url[1]))

C7_Witness ==
    /\ api = "validate_delete_table_operation"
    /\ decision # None
    /\ decision[1] = FALSE
    /\ endpoint_url = Some("")

(***************************************************************************)
(* C8.  Local-endpoint completeness: is_dynamodb_local returns True for    *)
(* every endpoint with 'localhost', '127.0.0.1' or '0.0.0.0' in it, in any *)
(* letter-casing, at any position, with any protocol, port or path.        *)
(***************************************************************************)
C8_LocalEndpointCompleteness ==
    (local_ret # None /\ HasLocalIndicator(endpoint_url)) => local_ret = Some(TRUE)

C8_Witness ==
    /\ local_ret = Some(TRUE)
    /\ endpoint_url = Some("https://LoCaLhOsT:8000/?next=127.0.0.1")

(***************************************************************************)
(* C9.  AWS/default correctness: is_dynamodb_local returns False for None, *)
(* for the empty string and for every endpoint of the shape                *)
(* <protocol>dynamodb(-fips)?.<region>.amazonaws.com.                      *)
(***************************************************************************)
C9_AwsDefaultCorrectness ==
    (/\ local_ret # None
     /\ \/ endpoint_url = None
        \/ endpoint_url = Some("")
        \/ HasAwsShape(endpoint_url))
        => local_ret = Some(FALSE)

C9_Witness ==
    /\ local_ret = Some(FALSE)
    /\ endpoint_url = Some("https://dynamodb-fips.us-east-1.amazonaws.com")

(***************************************************************************)
(* C10.  Delete-table detection: is_delete_table_operation returns True    *)
(* for every command with 'delete-table' in it in any letter-casing,       *)
(* whatever surrounds it, and False for every other command.               *)
(***************************************************************************)
C10_DeleteTableDetection ==
    delete_ret # None => (delete_ret = Some(TRUE) <=> IsDeleteCommand(command))

C10_Witness ==
    /\ delete_ret = Some(TRUE)
    /\ str_contains(command, " DeLeTe-tAbLe ")

\* C11: validate_delete_table_operation is total and deterministic.  For every
\* command and every endpoint (None, empty, blank, with or without a scheme) the
\* call returns, without raising, a decision taken at one of the three leaves:
\* allowed with no message because the command is no deletion, allowed with no
\* message because the endpoint is local, or denied with a message; and a second
\* call with the same arguments returns the decision of the first.
ValidateLeaves ==
    {<<TRUE, None>>} \cup
    {<<FALSE, Some(error_message_head \o shown)>> :
        shown \in {"AWS DynamoDB (default)"} \cup
                  (IF endpoint_url = None THEN {} ELSE {endpoint_url[1]})}

Events(Test(_)) == SelectSeq(log, Test)
Count(Test(_)) == Len(SelectSeq(log, Test))

IsCall(e) == e.op = "call"
IsCommand(e) == e.op = "subprocess.run"
IsDockerRun(e) == e.op = "subprocess.run" /\ str_contains(e.arg, "docker run ")
IsDockerStart(e) == e.op = "subprocess.run" /\ str_contains(e.arg, "docker start ")
IsExistsCheck(e) == e.op = "subprocess.run" /\ str_contains(e.arg, "docker ps -a -q ")
IsRunningCheck(e) == e.op = "subprocess.run" /\ str_contains(e.arg, "docker ps -q ")
IsPortsQuery(e) == e.op = "subprocess.run" /\ str_contains(e.arg, "docker ps --format ")
IsVersionCheck(e) == e.op = "subprocess.run" /\ str_contains(e.arg, "docker --version")
IsPortProbe(e) == e.op = "connect_ex"
IsReadyProbe(e) == e.op = "urlopen"
IsSleep(e) == e.op = "sleep"

\* An availability check, a port scan or a container start has begun.
IsBeyondReuse(e) ==
    \/ IsVersionCheck(e) \/ IsPortProbe(e) \/ IsDockerRun(e) \/ IsReadyProbe(e)
    \/ e.op = "call" /\ e.arg # "get_running_container_endpoint()"

IsScanOrStart(e) ==
    \/ IsPortProbe(e) \/ IsDockerRun(e) \/ IsReadyProbe(e)
    \/ e.op = "call" /\ (str_contains(e.arg, "find_available_port")
                         \/ str_contains(e.arg, "start_docker_container"))

SetupOver == api = "setup_dynamodb_local" /\ pc \in {"done", "validated"}

\* Text made of decimal digits only, and not empty.
AllDigits(s) == Len(s) > 0 /\ \A i \in 1..Len(s) : str_contains(Digits, CharAt(s, i))

\* C12: setup_dynamodb_local reuses an existing container: once
\* get_running_container_endpoint has returned an endpoint, the run makes no
\* Docker availability check, no port scan and no docker run, and when it is over
\* it has returned exactly that endpoint.
C12_ReuseExistingContainer ==
    (api = "setup_dynamodb_local" /\ existing_endpoint # None) =>
        /\ Count(IsBeyondReuse) = 0
        /\ pc \in {"setup_existing", "done", "validated"}
        /\ SetupOver => ret = Returned(existing_endpoint[1])

\* A stopped container was restarted and its endpoint, on port 8001, was returned.
C12_Witness ==
    /\ SetupOver
    /\ Count(IsDockerStart) = 1
    /\ existing_endpoint = Some("http://localhost:8001")
    /\ ret = Returned("http://localhost:8001")

\* C13: when no endpoint was found and is_docker_available answered no (Docker is
\* not installed, or docker --version failed or timed out), setup_dynamodb_local
\* raises RuntimeError with a message that contains 'Docker is not available',
\* and it has neither probed a port nor started a container.
C13_NoDockerStep ==
    pc = "setup_no_docker" =>
        /\ pc' = "done"
        /\ ret'.kind = "raise"
        /\ ret'.type = "RuntimeError"
        /\ str_contains(ret'.msg, "Docker is not available")
        /\ log' = log
        /\ Count(IsScanOrStart) = 0
        /\ existing_endpoint = None

C13_NoDockerRaises ==
    /\ [][C13_NoDockerStep]_vars
    /\ [](SetupOver /\ ~docker_installed =>
              /\ ret.kind = "raise"
              /\ ret.type = "RuntimeError"
              /\ str_contains(ret.msg, "Docker is not available")
              /\ Count(IsScanOrStart) = 0)

\* Docker is installed, docker --version failed, and the RuntimeError was raised.
C13_Witness ==
    /\ SetupOver
    /\ docker_installed
    /\ Count(IsVersionCheck) = 1
    /\ ret.kind = "raise"
    /\ str_contains(ret.msg, "Docker is not available")

\* C14: with no endpoint to reuse and Docker available, setup_dynamodb_local
\* proceeds in a fixed order: the existing-container check, the Docker availability
\* check, one call of find_available_port starting at 8000, then one call of
\* start_docker_container with exactly the port the scan returned; what
\* setup_dynamodb_local returns is the endpoint start_docker_container returned.
SetupCalls == Events(IsCall)

FoundPort == probed[Len(probed)][1]

SetupOrder(p) ==
    <<Event("call", "get_running_container_endpoint()"),
      Event("call", "is_docker_available()"),
      Event("call", "find_available_port(8000)"),
      Event("call", "start_docker_container(" \o str_int(p) \o ")")>>

\* The stage of the bootstrap an event belongs to.
Stage(e) ==
    IF IsCall(e) \/ e.op = "which" THEN 0
    ELSE IF IsExistsCheck(e) \/ IsRunningCheck(e) \/ IsDockerStart(e) \/ IsPortsQuery(e) THEN 1
    ELSE IF IsVersionCheck(e) THEN 2
    ELSE IF IsPortProbe(e) THEN 3
    ELSE 4

C14_NewContainerOrder ==
    api = "setup_dynamodb_local" =>
        /\ \A i, j \in DOMAIN log :
              (i < j /\ Stage(log[i]) # 0 /\ Stage(log[j]) # 0) => Stage(log[i]) <= Stage(log[j])
        /\ Len(SetupCalls) <= 4
        /\ Len(SetupCalls) = 4 =>
              /\ probed # <<>>
              /\ probed[Len(probed)][2] = "free"
              /\ SetupCalls = SetupOrder(FoundPort)
              /\ Count(IsVersionCheck) = 1
              /\ existing_endpoint = None
        /\ (Count(IsDockerRun) > 0 \/ Count(IsPortProbe) > 0) =>
              SetupCalls = SubSeq(SetupOrder(FoundPort), 1, Len(SetupCalls))
        /\ Count(IsDockerRun) <= 1
        /\ \A i \in DOMAIN log :
              IsDockerRun(log[i]) =>
                 /\ Len(SetupCalls) = 4
                 /\ str_contains(log[i].arg, " -p " \o str_int(FoundPort) \o ":8000 ")
        /\ (SetupOver /\ ret.kind = "return" /\ existing_endpoint = None) =>
              /\ Len(SetupCalls) = 4
              /\ Count(IsDockerRun) = 1
              /\ ret.value = "http://localhost:" \o str_int(FoundPort)

\* Port 8000 was busy, 8001 was free, the container was started on 8001 and its
\* endpoint was returned.
C14_Witness ==
    /\ SetupOver
    /\ ret = Returned("http://localhost:8001")
    /\ existing_endpoint = None
    /\ probed = <<<<8000, "busy">>, <<8001, "free">>>>
    /\ Count(IsDockerRun) = 1

\* C15: get_running_container_endpoint issues docker start if and only if its
\* checks found that the named container exists and is not running, always after
\* the existence check and the running check and before the port-mapping query.
\* For a running container it issues exactly three Docker commands, none of them
\* a start.  When no container exists it returns None.  A port mapping
\* 'H:P->8000/tcp' gives the endpoint 'http://localhost:P'.
GrcOver ==
    \/ api = "get_running_container_endpoint" /\ pc = "done"
    \/ api = "setup_dynamodb_local" /\ pc = "setup_existing"

DockerCommands == Events(IsCommand)

Blank(out) == \A i \in 1..Len(out) : CharAt(out, i) \in {" ", "\n", "\t"}

StartsWith(s, head) == Len(s) >= Len(head) /\ SubSeq(s, 1, Len(head)) = head

MappingHosts == {"0.0.0.0", "::", "127.0.0.1"}
MappingPorts == {"8000", "8001", "8002"}

C15_RestartOnlyWhenStopped ==
    GrcOver =>
        /\ Count(IsDockerStart) <= 1
        /\ Count(IsDockerStart) = 1 <=>
              /\ exists_out # None /\ ~Blank(exists_out[1])
              /\ running_out # None /\ Blank(running_out[1])
        /\ \A i \in DOMAIN DockerCommands :
              IsDockerStart(DockerCommands[i]) =>
                 /\ i = 3
                 /\ IsExistsCheck(DockerCommands[1])
                 /\ IsRunningCheck(DockerCommands[2])
                 /\ Len(DockerCommands) <= 4
                 /\ Len(DockerCommands) = 4 => IsPortsQuery(DockerCommands[4])
        /\ (running_out # None /\ ~Blank(running_out[1])) =>
              /\ Count(IsDockerStart) = 0
              /\ Len(DockerCommands) = 3
              /\ IsExistsCheck(DockerCommands[1])
              /\ IsRunningCheck(DockerCommands[2])
              /\ IsPortsQuery(DockerCommands[3])
        /\ (exists_out # None /\ Blank(exists_out[1])) =>
              /\ existing_endpoint = None
              /\ Len(DockerCommands) = 1
        /\ api = "get_running_container_endpoint" => ret = Returned(existing_endpoint)
        /\ \A h \in MappingHosts, p \in MappingPorts :
              LET mapping == h \o ":" \o p \o "->8000/tcp"
              IN  (ports_out # None /\ StartsWith(ports_out[1], mapping))
                     => existing_endpoint = Some("http://localhost:" \o p)

\* A stopped container was restarted between the running check and the ports
\* query, and its mapping 0.0.0.0:8001->8000/tcp gave http://localhost:8001.
C15_Witness ==
    /\ api = "get_running_container_endpoint"
    /\ pc = "done"
    /\ Count(IsDockerStart) = 1
    /\ Len(DockerCommands) = 4
    /\ ret = Returned(Some("http://localhost:8001"))

\* C16 as claimed: find_available_port(start_port) probes the ports in increasing
\* order, one at a time, and returns the smallest port p with
\* start_port <= p <= 65534 whose connection attempt fails, every port in
\* [start_port, p) having answered or raised OSError; it ends for every start_port,
\* with RuntimeError when no port below 65535 is free.
ScanInOrder ==
    \A i \in DOMAIN probed : probed[i][1] = start_port + i - 1

ScanReturned(p) ==
    /\ start_port <= p
    /\ p <= 65534
    /\ Len(probed) = p - start_port + 1
    /\ \A i \in 1..(Len(probed) - 1) : probed[i][2] \in {"busy", "OSError"}
    /\ probed[Len(probed)] = <<p, "free">>

ScanExhausted ==
    /\ ret.type = "RuntimeError"
    /\ \A i \in DOMAIN probed : probed[i][2] \in {"busy", "OSError"}
    /\ start_port + Len(probed) >= 65535

ScanOutcome ==
    /\ ScanInOrder
    /\ pc = "done" =>
          \/ ret.kind = "return" /\ ScanReturned(ret.value)
          \/ ret.kind = "raise" /\ ScanExhausted

C16_ScanAnyStartPort ==
    api = "find_available_port" => ScanOutcome

\* C16 amended: the above for every start_port >= 0; for a negative start_port
\* the first connection attempt raises OverflowError, which is not an OSError,
\* and the call ends with that exception after the one probe.
C16_ScanFromValidPort ==
    api = "find_available_port" =>
        IF start_port >= 0 THEN ScanOutcome
        ELSE /\ ScanInOrder
             /\ pc = "done" =>
                   /\ ret.kind = "raise"
                   /\ ret.type = "OverflowError"
                   /\ probed = <<<<start_port, "OverflowError">>>>

\* 8000 answered, probing 8001 raised OSError, 8002 was free and was returned.
C16_Witness ==
    /\ api = "find_available_port"
    /\ pc = "done"
    /\ probed = <<<<8000, "busy">>, <<8001, "OSError">>, <<8002, "free">>>>
    /\ ret = Returned(8002)

\* C17 as claimed: when the container starts and the first readiness check
\* succeeds, start_docker_container(port) has issued exactly one
\* 'docker run -d --name dynamodb-local-mcp-server -p <port>:8000 amazon/dynamodb-local',
\* has checked readiness by creating a DynamoDB client for the endpoint
\* 'http://localhost:<port>' and calling list_tables exactly once, and returns
\* 'http://localhost:<port>'.
IsClientCreation(e) == e.op = "boto3.client"
IsListTables(e) == e.op = "list_tables"

C17_ReadinessByListTables ==
    (/\ api = "start_docker_container"
     /\ pc = "done"
     /\ ret.kind = "return"
     /\ attempt = 0) =>
        /\ Count(IsDockerRun) = 1
        /\ \A i \in DOMAIN log :
              IsDockerRun(log[i]) =>
                 log[i].arg = DockerPath \o " run -d --name dynamodb-local-mcp-server -p "
                                         \o str_int(port) \o ":8000 amazon/dynamodb-local"
        /\ Count(IsClientCreation) = 1
        /\ \A i \in DOMAIN log :
              IsClientCreation(log[i]) =>
                 log[i].arg = "dynamodb endpoint_url=http://localhost:" \o str_int(port)
        /\ Count(IsListTables) = 1
        /\ ret.value = "http://localhost:" \o str_int(port)

\* C18: the readiness polling of start_docker_container ends after at most 10
\* probes.  It returns the endpoint at the first probe that succeeds and does not
\* probe again; it waits only after a failed probe that is not the tenth; it raises
\* RuntimeError right after the tenth failed probe in a row and never reaches the
\* trailing 'Unexpected error' raise; and when docker run fails it raises
\* RuntimeError before any probe.
LastEvent == log[Len(log)]

C18_ReadinessPollingBounded ==
    api \in {"start_docker_container", "setup_dynamodb_local"} =>
        /\ Count(IsReadyProbe) <= 10
        /\ \A i \in DOMAIN log :
              IsSleep(log[i]) =>
                 /\ i > 1 /\ IsReadyProbe(log[i - 1])
                 /\ i < Len(log) => IsReadyProbe(log[i + 1])
        /\ \A i \in DOMAIN log :
              IsReadyProbe(log[i]) =>
                 /\ \E j \in 1..(i - 1) : IsDockerRun(log[j])
                 /\ i < Len(log) => IsSleep(log[i + 1])
        /\ pc = "sdc_wait" =>
              /\ Count(IsSleep) = Count(IsReadyProbe)
              /\ Count(IsReadyProbe) <= 9
        /\ (pc \in {"done", "validated"} /\ Count(IsReadyProbe) > 0) =>
              /\ IsReadyProbe(LastEvent)
              /\ Count(IsSleep) = Count(IsReadyProbe) - 1
              /\ ret.kind \in {"return", "raise"}
              /\ ret.kind = "return" => ret.value = "http://localhost:" \o str_int(port)
              /\ ret.kind = "raise" =>
                    /\ Count(IsReadyProbe) = 10
                    /\ ret.type = "RuntimeError"
                    /\ str_contains(ret.msg, "failed to start at http://localhost:" \o str_int(port))
        /\ ret.kind = "raise" => ~str_contains(ret.msg, "Unexpected error")
        /\ (ret.kind = "raise" /\ Count(IsDockerRun) > 0 /\ Count(IsReadyProbe) = 0) =>
              /\ ret.type = "RuntimeError"
              /\ str_contains(ret.msg, "Failed to start Docker container")
              /\ IsDockerRun(LastEvent)

\* Ten probes failed with nine waits between them, and RuntimeError was raised.
C18_Witness ==
    /\ api = "start_docker_container"
    /\ pc = "done"
    /\ Count(IsReadyProbe) = 10
    /\ Count(IsSleep) = 9
    /\ ret.kind = "raise"

\* C19 as claimed: setup_dynamodb_local attempts 'docker run --name
\* dynamodb-local-mcp-server' only when no container of that name exists: in no
\* run where the existence check found the container, running or stopped, is a
\* docker run attempted, also when the restart fails or the ports output is empty
\* or has no '->'.
ExistenceCheckFoundContainer == exists_out # None /\ ~Blank(exists_out[1])

C19_NoRunWhenContainerExists ==
    (api = "setup_dynamodb_local" /\ ExistenceCheckFoundContainer) =>
        Count(IsDockerRun) = 0

\* C20: every endpoint setup_dynamodb_local returns, reused or fresh, has the form
\* 'http://localhost:<port>' and is classified local by is_dynamodb_local, so a
\* delete-table command validated against it is allowed.
LocalhostEndpoint(e) ==
    /\ StartsWith(e, "http://localhost:")
    /\ AllDigits(SubSeq(e, Len("http://localhost:") + 1, Len(e)))

C20_ReturnedEndpointIsLocal ==
    (api = "setup_dynamodb_local" /\ ret.kind = "return") =>
        /\ LocalhostEndpoint(ret.value)
        /\ pc = "validated" =>
              /\ IsDeleteCommand(command)
              /\ local_ret = Some(TRUE)
              /\ decision = <<TRUE, None>>

\* A fresh container on port 8001: its endpoint was returned and a deletion
\* checked against it was allowed.
C20_Witness ==
    /\ api = "setup_dynamodb_local"
    /\ pc = "validated"
    /\ Count(IsDockerRun) = 1
    /\ ret = Returned("http://localhost:8001")
    /\ decision = <<TRUE, None>>

=============================================================================
